---- MODULE Spec2Model ----
(***************************************************************************)
(* Security core of the COREos backend: JWT issuance / verification /      *)
(* revocation (security/jwt.py), credential authentication with lockout    *)
(* (security/authentication.py), AES-GCM encryption with key rotation      *)
(* (security/encryption.py), the encryption key store                     *)
(* (config/security.py), role-based access control                         *)
(* (security/authorization.py) and OAuth2 sign-in (security/oauth2.py).    *)
(*                                                                         *)
(* Time is counted in whole seconds.  Keys and secrets are identified by   *)
(* small integers: key 0 is "no valid key" (a tampered signature), key 1   *)
(* is the module-level SECRET_KEY, fresh keys are numbered from 2.         *)
(***************************************************************************)
EXTENDS Integers, Sequences, FiniteSets, TLC

\* ------------------------------------------------------------------ bounds
\* number of tokens create_token may mint in one behaviour of SpecJwt
MaxTokens == 2
\* number of tokens minted in one behaviour of SpecAuth
MaxAuthTokens == 4
\* number of clock advances in one behaviour
MaxAdvances == 1
\* number of fresh keys generated in one behaviour
MaxKeys == 1
\* number of payloads DataEncryption.encrypt seals in one behaviour
MaxSealed == 2
\* number of encryption-key rotations and of clock advances in one
\* behaviour of SpecKeys
MaxRotations == 3
MaxKeyAdvances == 3
\* capacity of JWTHandler._token_blacklist (TOKEN_BLACKLIST_SIZE, 10000 in
\* jwt.py:22), bounded so that a full blacklist is reachable
BlacklistCap == 1
\* capacity of the create_token memo (MAX_TOKEN_CACHE_SIZE, 1000 in
\* jwt.py:23), bounded so that a full memo is reachable
CreateCacheCap == 1
\* number of tokens minted in one behaviour of SpecOAuth
MaxOAuthTokens == 2
\* number of tokens minted in one behaviour of SpecRbac
MaxRbacTokens == 1
\* capacity of RBACHandler._permission_cache (1000 in authorization.py:46),
\* bounded so that a full cache is reachable
PermCacheCap == 1
\* tokens minted and clock advances in the token lifetime runs
MaxTtlTokens == 2
MaxTtlAdvances == 2
\* largest value a failed_attempts counter takes when its reads fail
MaxCounter == 6
\* concurrent authenticate_user calls, concurrent refresh_token calls, and
\* tokens minted in the runs with concurrent refreshes
MaxCallers == 6
MaxRefreshers == 3
MaxRaceTokens == 7
\* requests of one user in one rate-limit window
MaxRequests == 7
\* clock ticks in one behaviour of the token bucket
MaxBucketTicks == 6

\* --------------------------------------------------------------- constants
ACCESS_TOKEN_EXPIRE_MINUTES == 30
REFRESH_TOKEN_EXPIRE_DAYS == 7
CREATE_CACHE_TTL == 300
DaySeconds == 24 * 3600
AccessTTL == ACCESS_TOKEN_EXPIRE_MINUTES * 60
RefreshTTL == REFRESH_TOKEN_EXPIRE_DAYS * DaySeconds
BlacklistTTL == REFRESH_TOKEN_EXPIRE_DAYS * 24 * 3600
LongTTL == 30 * DaySeconds

\* error codes of utils/constants.py
AUTH_FAILED == "auth_001"
INVALID_TOKEN == "auth_002"
RATE_LIMITED == "api_001"

\* the JWTHandler instances of the process: the module-level jwt_handler,
\* the one AuthenticationManager builds for itself and the one RBACHandler
\* builds for itself
Handlers == {"jwt_handler", "auth_manager", "rbac_handler"}
SECRET_KEY == 1
TOKEN_VERSION == "1.0"

VARIABLES
    now,            \* the clock (datetime.utcnow / the caches' timer)
    advances,       \* clock advances taken so far
    secret,         \* JWTHandler._secret_key, per handler
    nextKey,        \* next fresh key
    blacklist,      \* JWTHandler._token_blacklist, per handler (TTLCache)
    createCache,    \* the TTLCache of @cached on create_token (class level)
    issued,         \* every token string create_token has returned
    nextJti,        \* uuid4 stand-in: next unused jti
    everBlacklisted,\* history: JWTs blacklist_token was called on, per handler
    rotatedOut,     \* history: tokens issued before the handler's last rotate_key
    permCache,      \* RBACHandler._permission_cache (TTLCache)
    failed,         \* redis keys failed_attempts:{email}
    tokCache,       \* redis keys tokens:{user_id}
    streak,         \* history: consecutive credential failures per email
    refreshed,      \* history: tokens a successful refresh_token consumed
    encKey,         \* DataEncryption._encryption_key
    prevKey,        \* history: the key rotate_key replaced last
    sealed,         \* payloads DataEncryption.encrypt has returned
    decrypted,      \* outcome of the last DataEncryption.decrypt
    encryptionKeys, \* SecurityConfig._encryption_keys (the key ids)
    activeKeyId,    \* SecurityConfig._active_key_id
    lastRotation,   \* SecurityConfig._last_rotation
    prevActive,     \* history: the key id active before the last rotation
    rotations,      \* history: rotations carried out
    last            \* outcome of the last operation

VARIABLES
    callPc,         \* position of each concurrent authenticate_user call
    rfPc,           \* position of each concurrent refresh_token call
    rfTok,          \* the refresh token each refresh_token call presented
    mwPc,           \* position of each request in RateLimitMiddleware.dispatch
    mwSeen,         \* user_count of each request (the value its INCR returned)
    mwUser,         \* redis key rate_limit:user:{id}:{window}
    mwOrg,          \* redis key rate_limit:org:{id}:{window}
    mwIncrs,        \* history: INCRs issued on the user key
    tokens,         \* RateLimiter.tokens
    lastUpdate,     \* RateLimiter.last_update
    bucketNow,      \* the clock of the RateLimiter
    granted         \* history: acquire() calls that returned True

jwtVars == <<secret, nextKey, blacklist, createCache, issued, nextJti,
            everBlacklisted, rotatedOut>>
rbacVars == <<permCache>>
authVars == <<failed, tokCache, streak, refreshed>>
encVars == <<encKey, prevKey, sealed, decrypted>>
keyVars == <<encryptionKeys, activeKeyId, lastRotation, prevActive, rotations>>
raceVars == <<callPc, rfPc, rfTok>>
mwVars == <<mwPc, mwSeen, mwUser, mwOrg, mwIncrs>>
bucketVars == <<tokens, lastUpdate, bucketNow, granted>>
sideVars == <<raceVars, mwVars, bucketVars>>
cryptoVars == <<encVars, keyVars, rbacVars, sideVars>>

\* ------------------------------------------------------------ cachetools
\* A TTLCache is the sequence of its links, oldest first; an entry
\* [k, v, exp] is live while timer() < exp.
TTLExpire(c, t) == SelectSeq(c, LAMBDA e : t < e.exp)

TTLContains(c, k, t) == \E i \in 1..Len(c) : c[i].k = k /\ t < c[i].exp

TTLGet(c, k, t) == (CHOOSE i \in 1..Len(c) : c[i].k = k /\ t < c[i].exp)

DropFirst(s, n) == SubSeq(s, n + 1, Len(s))

\* TTLCache.__setitem__: expire, make room by popping the oldest links when
\* the key is new, (re)link the key at the end with a fresh expiry
TTLSet(c, k, v, t, ttl, maxsize) ==
    LET live == TTLExpire(c, t)
        has == \E i \in 1..Len(live) : live[i].k = k
        rest == IF has THEN SelectSeq(live, LAMBDA e : e.k # k)
                ELSE IF Len(live) + 1 > maxsize
                     THEN DropFirst(live, Len(live) + 1 - maxsize)
                     ELSE live
    IN Append(rest, [k |-> k, v |-> v, exp |-> t + ttl])

\* ------------------------------------------------------------------ tokens
Subs == {"u1"}
RoleLists == {<<"standard_user">>}
PermMaps == {{}, {<<"write_data", TRUE>>}}
JwtPerms == {{}}
NoDelta == [given |-> FALSE, secs |-> 0]
Delta(s) == [given |-> TRUE, secs |-> s]
Deltas == {NoDelta, Delta(-1), Delta(RefreshTTL), Delta(LongTTL)}
JwtDeltas == {NoDelta, Delta(LongTTL)}
DataSet == {[sub |-> s, email |-> "none", role |-> "none"] : s \in Subs}

\* a string that is not a JWT ("invalid_token", "")
Garbage == [form |-> "garbage", sub |-> "none", email |-> "none",
            role |-> "none", exp |-> 0,
            iat |-> 0, jti |-> 0, roles |-> <<>>, perms |-> {},
            ver |-> "none", key |-> 0]

\* the token with its signature bytes altered
Tampered(t) == [t EXCEPT !.key = 0]
\* a token of another version signed with the same secret
OtherVersion(t) == [t EXCEPT !.ver = "2.0"]

TokenInputs == issued \cup {Tampered(t) : t \in issued}
                      \cup {OtherVersion(t) : t \in issued} \cup {Garbage}

JwtIssuers == {"jwt_handler"}
\* the handler whose rotate_key a caller can reach: AuthenticationManager
\* and RBACHandler keep their JWTHandler to themselves and never rotate it
JwtRotators == {"jwt_handler"}

Ok(claims) == [ok |-> TRUE, code |-> "none", msg |-> "none", claims |-> claims]
Err(code, msg) == [ok |-> FALSE, code |-> code, msg |-> msg, claims |-> Garbage]

\* timedelta truthiness: None and timedelta(0) both select the default
Expire(delta, t) ==
    t + (IF delta.given /\ delta.secs # 0 THEN delta.secs ELSE AccessTTL)

MintToken(h, data, roles, perms, delta, jti) ==
    [form |-> "jwt", sub |-> data.sub, email |-> data.email, role |-> data.role,
     exp |-> Expire(delta, now), iat |-> now, jti |-> jti,
     roles |-> roles, perms |-> perms, ver |-> TOKEN_VERSION,
     key |-> secret[h]]

CreateKey(h, data, roles, perms, delta) ==
    [h |-> h, data |-> data, roles |-> roles, perms |-> perms, delta |-> delta]

\* create_token under @cached, as a function of the memo cc and of the next
\* unused jti: a live memo entry for the same arguments is returned as is
CreateToken(cc, jti, h, data, roles, perms, delta) ==
    LET k == CreateKey(h, data, roles, perms, delta)
    IN IF TTLContains(cc, k, now)
       THEN [tok |-> cc[TTLGet(cc, k, now)].v, cache |-> cc, jti |-> jti]
       ELSE LET t == MintToken(h, data, roles, perms, delta, jti)
            IN [tok |-> t,
                cache |-> TTLSet(cc, k, t, now, CREATE_CACHE_TTL, CreateCacheCap),
                jti |-> jti + 1]

\* create_access_token, which the callers use and jwt.py does not define:
\* create_token with the default lifetime
CreateAccessToken(cc, jti, h, data, roles, perms) ==
    CreateToken(cc, jti, h, data, roles, perms, NoDelta)

\* jose.jwt.decode: structure, signature, then exp (rejected when exp < now)
JwtDecodeOk(h, t) == t.form = "jwt" /\ t.key = secret[h] /\ ~(t.exp < now)

VerifyToken(bl, h, t) ==
    IF TTLContains(bl[h], t, now)
    THEN Err(INVALID_TOKEN, "Token has been revoked")
    ELSE IF ~JwtDecodeOk(h, t)
    THEN Err(INVALID_TOKEN, "Invalid authentication token")
    ELSE IF t.ver # TOKEN_VERSION
    THEN Err(INVALID_TOKEN, "Invalid token version")
    ELSE Ok(t)

\* blacklist_token as a function of the blacklists: get_unverified_claims
\* raises on a string that is not a JWT and the error is swallowed
BlacklistToken(bl, h, t) ==
    IF t.form # "jwt" THEN bl
    ELSE [bl EXCEPT ![h] = TTLSet(bl[h], t, t.jti, now, BlacklistTTL, BlacklistCap)]

Outcome(op, r) ==
    [op |-> op, ok |-> r.ok, code |-> r.code, msg |-> r.msg,
     readCtr |-> FALSE, store |-> FALSE, email |-> "none", pw |-> "none", pre |-> 0]
NoOp == Outcome("none", Err("none", "none"))

JwtInit ==
    /\ now = 0
    /\ advances = 0
    /\ secret = [h \in Handlers |-> SECRET_KEY]
    /\ nextKey = 2
    /\ blacklist = [h \in Handlers |-> <<>>]
    /\ createCache = <<>>
    /\ issued = {}
    /\ nextJti = 1
    /\ everBlacklisted = [h \in Handlers |-> {}]
    /\ rotatedOut = [h \in Handlers |-> {}]
    /\ last = NoOp

\* JWTHandler.create_token, with at most max tokens minted
CreateStep(max, h, data, roles, perms, delta) ==
    LET r == CreateToken(createCache, nextJti, h, data, roles, perms, delta)
    IN /\ r.jti <= max + 1
       /\ createCache' = r.cache
       /\ issued' = issued \cup {r.tok}
       /\ nextJti' = r.jti
       /\ last' = Outcome("create", Ok(r.tok))
       /\ UNCHANGED <<now, advances, secret, nextKey, blacklist, everBlacklisted,
                    rotatedOut, authVars, cryptoVars>>

DoCreateToken(h, data, roles, perms, delta) ==
    CreateStep(MaxTokens, h, data, roles, perms, delta)

\* JWTHandler.verify_token
DoVerifyToken(h, t) ==
    /\ last' = Outcome("verify", VerifyToken(blacklist, h, t))
    /\ UNCHANGED <<now, advances, jwtVars, authVars, cryptoVars>>

\* JWTHandler.blacklist_token
DoBlacklistToken(h, t) ==
    /\ blacklist' = BlacklistToken(blacklist, h, t)
    /\ everBlacklisted' = [everBlacklisted EXCEPT ![h] = @ \cup ({t} \ {Garbage})]
    /\ last' = Outcome("blacklist", Ok(Garbage))
    /\ UNCHANGED <<now, advances, secret, nextKey, createCache, issued, nextJti,
                   rotatedOut, authVars, cryptoVars>>

\* the rotation leaves the signing secret as it was
MutRotateKeyKeepsSecret(h) ==
    /\ nextKey <= MaxKeys + 1
    /\ secret' = secret
    /\ nextKey' = nextKey + 1
    /\ rotatedOut' = [rotatedOut EXCEPT ![h] = issued]
    /\ last' = Outcome("rotate", Ok(Garbage))
    /\ UNCHANGED <<now, advances, blacklist, createCache, issued, nextJti, everBlacklisted, authVars, cryptoVars>>

\* JWTHandler.rotate_key
DoRotateKey(h) ==
    /\ nextKey <= MaxKeys + 1
    /\ secret' = [secret EXCEPT ![h] = nextKey]
    /\ nextKey' = nextKey + 1
    /\ rotatedOut' = [rotatedOut EXCEPT ![h] = issued]
    /\ last' = Outcome("rotate", Ok(Garbage))
    /\ UNCHANGED <<now, advances, blacklist, createCache, issued, nextJti, everBlacklisted, authVars, cryptoVars>>

\* ---------------------------------------------------------- authentication
MAX_AUTH_ATTEMPTS == 5
LOCKOUT_TTL == 3600
TOKEN_CACHE_TTL == 300

Emails == {"a@x", "b@x"}
Passwords == {"good", "bad"}
NoUser == [found |-> FALSE, id |-> "none", pw |-> "none", roles |-> <<>>, perms |-> {}]

\* the credential store: a@x is registered, b@x is not
CredentialStore ==
    [e \in Emails |->
        IF e = "a@x"
        THEN [found |-> TRUE, id |-> "u1", pw |-> "good",
              roles |-> <<"standard_user">>, perms |-> {}]
        ELSE NoUser]

\* _verify_credentials (a stub in the source): the user record when the
\* email is registered and the password matches its hash, else None
VerifyCredentials(store, e, pw) ==
    IF store[e].found /\ store[e].pw = pw THEN store[e] ELSE NoUser

\* a redis integer key: absent, or a value with or without an expiry
NoKey == [n |-> 0, ttl |-> FALSE, exp |-> 0]
KeyLive(k, t) == k.n > 0 /\ (k.ttl => t < k.exp)
RedisGet(fa, e, t) == IF KeyLive(fa[e], t) THEN fa[e].n ELSE 0
RedisIncr(fa, e, t) ==
    [fa EXCEPT ![e] = IF KeyLive(@, t) THEN [@ EXCEPT !.n = @ + 1]
                      ELSE [n |-> 1, ttl |-> FALSE, exp |-> 0]]
RedisExpire(fa, e, t, ttl) ==
    [fa EXCEPT ![e] = IF KeyLive(@, t) THEN [@ EXCEPT !.ttl = TRUE, !.exp = t + ttl]
                      ELSE NoKey]
RedisDelete(fa, e) == [fa EXCEPT ![e] = NoKey]
\* keys whose expiry has passed are gone
RedisPurge(fa, t) == [e \in DOMAIN fa |-> IF KeyLive(fa[e], t) THEN fa[e] ELSE NoKey]

\* the read reports no failures whatever is stored
MutGetAlwaysZero(fa, e) == 0

\* _get_failed_attempts
GetFailedAttempts(fa, e) == RedisGet(fa, e, now)

IncrementFailedAttempts(fa, e) ==
    RedisExpire(RedisIncr(fa, e, now), e, now, LOCKOUT_TTL)

\* the success path forgets to delete the counter
MutClearKeepsCounter(fa, e) == fa

ClearFailedAttempts(fa, e) == RedisDelete(fa, e)

AuthErr(phase, code, msg, readCtr, store, fa) ==
    [phase |-> phase, res |-> Err(code, msg), readCtr |-> readCtr,
     store |-> store, failed |-> fa]

\* the lockout counter is consulted before the rate limiter
MutAuthCheckLockoutFirst(store, fa, e, pw, acquired) ==
    IF GetFailedAttempts(fa, e) >= MAX_AUTH_ATTEMPTS
    THEN AuthErr("locked", AUTH_FAILED,
                 "Account temporarily locked due to multiple failed attempts",
                 TRUE, FALSE, fa)
    ELSE IF ~acquired
    THEN AuthErr("limited", RATE_LIMITED, "Authentication rate limit exceeded",
                 TRUE, FALSE, fa)
    ELSE IF ~VerifyCredentials(store, e, pw).found
    THEN AuthErr("bad", AUTH_FAILED, "Invalid credentials", TRUE, TRUE,
                 IncrementFailedAttempts(fa, e))
    ELSE [phase |-> "good", res |-> Ok(Garbage), readCtr |-> TRUE,
          store |-> TRUE, failed |-> ClearFailedAttempts(fa, e)]

\* failures are counted for registered emails only
MutAuthCheckUnknownNoCount(store, fa, e, pw, acquired) ==
    IF ~acquired
    THEN AuthErr("limited", RATE_LIMITED, "Authentication rate limit exceeded",
                 FALSE, FALSE, fa)
    ELSE IF GetFailedAttempts(fa, e) >= MAX_AUTH_ATTEMPTS
    THEN AuthErr("locked", AUTH_FAILED,
                 "Account temporarily locked due to multiple failed attempts",
                 TRUE, FALSE, fa)
    ELSE IF ~VerifyCredentials(store, e, pw).found
    THEN AuthErr("bad", AUTH_FAILED, "Invalid credentials", TRUE, TRUE,
                 IF store[e].found THEN IncrementFailedAttempts(fa, e) ELSE fa)
    ELSE [phase |-> "good", res |-> Ok(Garbage), readCtr |-> TRUE,
          store |-> TRUE, failed |-> ClearFailedAttempts(fa, e)]

\* authenticate_user up to the point where tokens are minted, as a function
\* of the credential store, the lockout counters and the limiter's verdict
AuthCheck(store, fa, e, pw, acquired) ==
    IF ~acquired
    THEN AuthErr("limited", RATE_LIMITED, "Authentication rate limit exceeded",
                 FALSE, FALSE, fa)
    ELSE IF GetFailedAttempts(fa, e) >= MAX_AUTH_ATTEMPTS
    THEN AuthErr("locked", AUTH_FAILED,
                 "Account temporarily locked due to multiple failed attempts",
                 TRUE, FALSE, fa)
    ELSE IF ~VerifyCredentials(store, e, pw).found
    THEN AuthErr("bad", AUTH_FAILED, "Invalid credentials", TRUE, TRUE,
                 IncrementFailedAttempts(fa, e))
    ELSE [phase |-> "good", res |-> Ok(Garbage), readCtr |-> TRUE,
          store |-> TRUE, failed |-> ClearFailedAttempts(fa, e)]

AuthOutcome(op, c, e, pw, pre) ==
    [op |-> op, ok |-> c.res.ok, code |-> c.res.code, msg |-> c.res.msg,
     readCtr |-> c.readCtr, store |-> c.store, email |-> e, pw |-> pw, pre |-> pre]

NoEntry == [access |-> 0, refresh |-> 0, exp |-> 0]
\* _cache_tokens: setex tokens:{user_id}
CacheTokens(tc, uid, access, refresh) ==
    [tc EXCEPT ![uid] = [access |-> access.jti, refresh |-> refresh.jti,
                         exp |-> now + TOKEN_CACHE_TTL]]

AuthInit ==
    /\ failed = [e \in Emails |-> NoKey]
    /\ tokCache = [u \in Subs |-> NoEntry]
    /\ streak = [e \in Emails |-> 0]
    /\ refreshed = {}

AuthHandler == "auth_manager"

\* AuthenticationManager.authenticate_user
DoAuthenticateUser(e, pw, acquired) ==
    LET c == AuthCheck(CredentialStore, failed, e, pw, acquired)
        user == VerifyCredentials(CredentialStore, e, pw)
        a == CreateAccessToken(createCache, nextJti, AuthHandler,
                               [sub |-> user.id, email |-> e, role |-> "none"], user.roles, user.perms)
        r == CreateToken(a.cache, a.jti, AuthHandler,
                         [sub |-> user.id, email |-> "none", role |-> "none"], user.roles, {},
                         Delta(RefreshTTL))
    IN /\ failed' = c.failed
       /\ last' = AuthOutcome("auth", c, e, pw, GetFailedAttempts(failed, e))
       /\ streak' = [streak EXCEPT ![e] = IF c.phase = "bad" THEN @ + 1
                                          ELSE IF c.phase = "good" THEN 0 ELSE @]
       /\ IF c.phase = "good"
          THEN /\ r.jti <= MaxAuthTokens + 1
               /\ createCache' = r.cache
               /\ nextJti' = r.jti
               /\ issued' = issued \cup {a.tok, r.tok}
               /\ tokCache' = CacheTokens(tokCache, user.id, a.tok, r.tok)
          ELSE UNCHANGED <<createCache, nextJti, issued, tokCache>>
       /\ UNCHANGED <<now, advances, secret, nextKey, blacklist, everBlacklisted,
                       rotatedOut, refreshed, cryptoVars>>

\* refresh_token as a function of the state: the verdict on the presented
\* token decides, every exception becomes AUTH_FAILED
RefreshCheck(bl, t) ==
    IF VerifyToken(bl, AuthHandler, t).ok THEN Ok(t)
    ELSE Err(AUTH_FAILED, "Token refresh failed")

\* AuthenticationManager.refresh_token
DoRefreshToken(t) ==
    LET v == RefreshCheck(blacklist, t)
        a == CreateAccessToken(createCache, nextJti, AuthHandler,
                               [sub |-> t.sub, email |-> "none", role |-> "none"], t.roles, t.perms)
        r == CreateToken(a.cache, a.jti, AuthHandler,
                         [sub |-> t.sub, email |-> "none", role |-> "none"], t.roles, {},
                         Delta(RefreshTTL))
    IN /\ last' = Outcome("refresh", v)
       /\ IF v.ok
          THEN /\ r.jti <= MaxAuthTokens + 1
               /\ createCache' = r.cache
               /\ nextJti' = r.jti
               /\ issued' = issued \cup {a.tok, r.tok}
               /\ tokCache' = CacheTokens(tokCache, t.sub, a.tok, r.tok)
               /\ blacklist' = BlacklistToken(blacklist, AuthHandler, t)
               /\ everBlacklisted' = [everBlacklisted EXCEPT ![AuthHandler] = @ \cup {t}]
               /\ refreshed' = refreshed \cup {t}
          ELSE UNCHANGED <<createCache, nextJti, issued, tokCache, blacklist,
                           everBlacklisted, refreshed>>
       /\ UNCHANGED <<now, advances, secret, nextKey, rotatedOut, failed, streak, cryptoVars>>

\* a refresh token minted directly on a handler and presented later
IssueRefreshToken(h, data, roles) ==
    CreateStep(MaxAuthTokens, h, data, roles, {}, Delta(LongTTL))

\* the clock moves on; redis drops the keys whose expiry has passed
Tick(max, d) ==
    /\ advances < max
    /\ now' = now + d
    /\ advances' = advances + 1
    /\ failed' = RedisPurge(failed, now + d)
    /\ streak' = [e \in Emails |-> IF KeyLive(failed[e], now + d) THEN streak[e] ELSE 0]
    /\ tokCache' = [u \in Subs |-> IF now + d < tokCache[u].exp THEN tokCache[u] ELSE NoEntry]
    /\ last' = NoOp
    /\ UNCHANGED <<jwtVars, refreshed, cryptoVars>>

Advance(d) == Tick(MaxAdvances, d)

\* -------------------------------------------------------------- encryption
\* Text is a sequence of code points, bytes a sequence of byte values; the
\* alphabet is the ASCII letters (one byte in UTF-8), e-acute (two bytes) and
\* the byte 200, which is no UTF-8 text on its own.
Utf8Encode(chars) ==
    IF chars = <<>> THEN <<>>
    ELSE IF chars[1] < 128 THEN chars ELSE <<195, 169>>

Utf8Valid(bytes) ==
    \/ bytes = <<>>
    \/ Len(bytes) = 1 /\ bytes[1] < 128
    \/ bytes = <<195, 169>>

Utf8Decode(bytes) ==
    IF bytes = <<>> THEN <<>>
    ELSE IF bytes[1] < 128 THEN bytes ELSE <<233>>

Text(chars) == [kind |-> "str", val |-> chars]
Bytes(bs) == [kind |-> "bytes", val |-> bs]
Plaintexts == {Text(<<65>>), Text(<<233>>), Bytes(<<65>>), Bytes(<<200>>)}
Nonces == {1, 2}

\* text that is no sealed payload
\* the GCM tag authenticates the ciphertext under the key and the nonce; the
\* ciphertext is identified by the bytes it decrypts to
GcmTag(key, nonce, pt) == [key |-> key, nonce |-> nonce, pt |-> pt]

BadPayload == [form |-> "garbage", nonce |-> 0, key |-> 0, pt |-> <<>>,
               tag |-> GcmTag(0, 0, <<>>), src |-> Text(<<>>)]

\* encrypt_data with a key: AES-GCM under a fresh nonce; nonce, ciphertext and
\* tag make the payload
EncryptData(data, key, nonce) ==
    LET pt == IF data.kind = "str" THEN Utf8Encode(data.val) ELSE data.val
    IN [form |-> "sealed", nonce |-> nonce, key |-> key, pt |-> pt,
        tag |-> GcmTag(key, nonce, pt), src |-> data]

\* a payload with a ciphertext bit flipped: the ciphertext stands for other
\* bytes, the tag is the old one
FlipCiphertext(c) ==
    [c EXCEPT !.pt = <<IF Head(@) = 65 THEN 66 ELSE 65>> \o Tail(@)]
\* a payload with a tag bit flipped
FlipTag(c) == [c EXCEPT !.tag = [@ EXCEPT !.key = 0]]
Tamperings(c) == {FlipCiphertext(c), FlipTag(c)}

DecOk(text) == [ok |-> TRUE, code |-> "none", text |-> text]
DecErr(code) == [ok |-> FALSE, code |-> code, text |-> <<>>]

\* the tag is not checked
MutDecryptNoTagCheck(c, key) ==
    IF c.form # "sealed" THEN DecErr("crypto_006")
    ELSE IF ~Utf8Valid(c.pt) THEN DecErr("crypto_006")
    ELSE DecOk(Utf8Decode(c.pt))

\* decrypt_data with a key: tag check (InvalidTag), then decode('utf-8')
DecryptData(c, key) ==
    IF c.form # "sealed" THEN DecErr("crypto_006")
    ELSE IF c.tag # GcmTag(key, c.nonce, c.pt) THEN DecErr("crypto_005")
    ELSE IF ~Utf8Valid(c.pt) THEN DecErr("crypto_006")
    ELSE DecOk(Utf8Decode(c.pt))

EncInit ==
    /\ encKey = 1
    /\ prevKey = 0
    /\ sealed = {}
    /\ decrypted = DecErr("none")

\* DataEncryption.encrypt
DoEncrypt(data, nonce) ==
    /\ Cardinality(sealed) < MaxSealed
    /\ sealed' = sealed \cup {EncryptData(data, encKey, nonce)}
    /\ UNCHANGED <<encKey, prevKey, decrypted, nextKey>>

\* DataEncryption.decrypt
DoDecrypt(c) ==
    /\ decrypted' = DecryptData(c, encKey)
    /\ UNCHANGED <<encKey, prevKey, sealed, nextKey>>

\* DataEncryption.rotate_key
DoRotateEncKey ==
    /\ nextKey <= MaxKeys + 1
    /\ encKey' = nextKey
    /\ prevKey' = encKey
    /\ nextKey' = nextKey + 1
    /\ UNCHANGED <<sealed, decrypted>>

EncNext ==
    /\ \/ \E data \in Plaintexts, nonce \in Nonces : DoEncrypt(data, nonce)
       \/ \E c \in sealed \cup {BadPayload} \cup UNION {Tamperings(x) : x \in sealed} :
            DoDecrypt(c)
       \/ DoRotateEncKey
    /\ UNCHANGED <<now, advances, secret, blacklist, createCache, issued,
                   nextJti, everBlacklisted, rotatedOut, authVars, keyVars,
                   rbacVars, sideVars, last>>

\* -------------------------------------------------------- SecurityConfig
KEY_ROTATION_DAYS == 30

KeysInit ==
    /\ encryptionKeys = {1}
    /\ activeKeyId = 1
    /\ lastRotation = 0
    /\ prevActive = 0
    /\ rotations = 0

\* periodic_task: the wrapped method runs only when 30 days have passed
RotationDue == (now - lastRotation) \div DaySeconds >= KEY_ROTATION_DAYS

\* the retention filter of rotate_encryption_keys reads _previous_key_id,
\* which nothing assigns: it raises on the first key that is not the active
\* one, and the key store is then left as it was
RetainKeys(keys, active) ==
    IF \E k \in keys : k # active
    THEN [raised |-> TRUE, keys |-> keys]
    ELSE [raised |-> FALSE, keys |-> keys]

\* SecurityConfig.rotate_encryption_keys under @periodic_task
DoRotateEncryptionKeys ==
    /\ rotations < MaxRotations
    /\ IF RotationDue
       THEN LET newId == rotations + 2
                kept == RetainKeys(encryptionKeys \cup {newId}, newId)
            IN /\ encryptionKeys' = kept.keys
               /\ activeKeyId' = newId
               /\ lastRotation' = now
               /\ prevActive' = activeKeyId
               /\ rotations' = rotations + 1
               /\ last' = Outcome("rotate_encryption_keys",
                            IF kept.raised THEN Err("AttributeError", "_previous_key_id")
                            ELSE Ok(Garbage))
       ELSE /\ last' = Outcome("rotate_encryption_keys", Ok(Garbage))
            /\ UNCHANGED keyVars
    /\ UNCHANGED <<now, advances, jwtVars, authVars, encVars, rbacVars, sideVars>>

\* SecurityConfig.encrypt_data under the active key (data: bytes)
DoConfigEncrypt(data, nonce) ==
    /\ Cardinality(sealed) < MaxSealed
    /\ sealed' = sealed \cup {EncryptData(data, activeKeyId, nonce)}
    /\ UNCHANGED <<now, advances, jwtVars, authVars, keyVars, rbacVars, sideVars, encKey,
                   prevKey, decrypted, last>>

\* SecurityConfig.decrypt_data: the key id must still be in the store; the
\* bytes are returned as they are
ConfigDecrypt(keys, c) ==
    IF c.key \notin keys THEN DecErr("ValueError") ELSE DecOk(c.pt)

DoConfigDecrypt(c) ==
    /\ decrypted' = ConfigDecrypt(encryptionKeys, c)
    /\ UNCHANGED <<now, advances, jwtVars, authVars, keyVars, rbacVars, sideVars, encKey,
                   prevKey, sealed, last>>

KeySteps == {15 * DaySeconds, KEY_ROTATION_DAYS * DaySeconds}

KeysNext ==
    \/ DoRotateEncryptionKeys
    \/ \E data \in {d \in Plaintexts : d.kind = "bytes"}, nonce \in Nonces :
            DoConfigEncrypt(data, nonce)
    \/ \E c \in sealed : DoConfigDecrypt(c)
    \/ \E d \in KeySteps : Tick(MaxKeyAdvances, d)

JwtSteps == {CREATE_CACHE_TTL, BlacklistTTL + CREATE_CACHE_TTL}
AuthSteps == {LOCKOUT_TTL, BlacklistTTL + LOCKOUT_TTL}

JwtNext ==
    \/ \E h \in JwtIssuers, data \in DataSet, roles \in RoleLists,
          perms \in JwtPerms, delta \in JwtDeltas :
            DoCreateToken(h, data, roles, perms, delta)
    \/ \E h \in Handlers \ {"rbac_handler"}, t \in TokenInputs : DoVerifyToken(h, t)
    \/ \E h \in JwtIssuers, t \in issued \cup {Garbage} : DoBlacklistToken(h, t)
    \/ \E h \in JwtRotators : DoRotateKey(h)
    \/ \E d \in JwtSteps : Advance(d)

AuthNext ==
    \/ \E e \in Emails, pw \in Passwords, acquired \in BOOLEAN :
            DoAuthenticateUser(e, pw, acquired)
    \/ \E d \in AuthSteps : Advance(d)

\* logins of the registered user, refreshes, and refresh tokens minted on
\* the module-level handler as the integration tests do
RefreshNext ==
    \/ \E pw \in Passwords : DoAuthenticateUser("a@x", pw, TRUE)
    \/ \E t \in issued \cup {Garbage} : DoRefreshToken(t)
    \/ \E h \in JwtIssuers, data \in DataSet, roles \in RoleLists :
            IssueRefreshToken(h, data, roles)
    \/ \E d \in AuthSteps : Advance(d)

vars == <<now, advances, secret, nextKey, blacklist, createCache, issued,
          nextJti, everBlacklisted, rotatedOut, permCache, failed, tokCache, streak, refreshed,
          encKey, prevKey, sealed, decrypted, encryptionKeys, activeKeyId,
          lastRotation, prevActive, rotations, last, sideVars>>

\* ------------------------------------------------- authentication, faults
\* the awaited call of authenticate_user that raises (redis unreachable or
\* timed out, the credential store unreachable), if any: the read of the
\* counter, the credential lookup, the INCR, the EXPIRE, the DELETE
FaultPoints == {"none", "get", "lookup", "incr", "expire", "delete"}

\* _get_failed_attempts: an exception is logged and 0 is returned
GetFailedAttemptsOr(fa, e, fault) ==
    IF fault = "get" THEN 0 ELSE GetFailedAttempts(fa, e)

\* _increment_failed_attempts: incr, then expire, each awaited; an exception
\* of either is logged and swallowed
IncrementFailedAttemptsOr(fa, e, fault) ==
    IF fault = "incr" THEN fa
    ELSE IF fault = "expire" THEN RedisIncr(fa, e, now)
    ELSE IncrementFailedAttempts(fa, e)

\* _clear_failed_attempts: an exception of delete is logged and swallowed
ClearFailedAttemptsOr(fa, e, fault) ==
    IF fault = "delete" THEN fa ELSE ClearFailedAttempts(fa, e)

\* a lookup that raised is counted as a failed attempt
MutLookupErrorCounts(store, fa, e, pw, acquired, fault) ==
    IF ~acquired
    THEN AuthErr("limited", RATE_LIMITED, "Authentication rate limit exceeded",
                 FALSE, FALSE, fa)
    ELSE IF GetFailedAttemptsOr(fa, e, fault) >= MAX_AUTH_ATTEMPTS
    THEN AuthErr("locked", AUTH_FAILED,
                 "Account temporarily locked due to multiple failed attempts",
                 TRUE, FALSE, fa)
    ELSE IF fault = "lookup"
    THEN AuthErr("error", AUTH_FAILED, "Authentication failed", TRUE, TRUE,
                 IncrementFailedAttempts(fa, e))
    ELSE IF ~VerifyCredentials(store, e, pw).found
    THEN AuthErr("bad", AUTH_FAILED, "Invalid credentials", TRUE, TRUE,
                 IncrementFailedAttemptsOr(fa, e, fault))
    ELSE [phase |-> "good", res |-> Ok(Garbage), readCtr |-> TRUE,
          store |-> TRUE, failed |-> ClearFailedAttemptsOr(fa, e, fault)]

\* authenticate_user up to the point where tokens are minted, with the
\* call that raises: an exception of _verify_credentials reaches the outer
\* `except Exception` and becomes AUTH_FAILED "Authentication failed"
AuthCheckFaults(store, fa, e, pw, acquired, fault) ==
    IF ~acquired
    THEN AuthErr("limited", RATE_LIMITED, "Authentication rate limit exceeded",
                 FALSE, FALSE, fa)
    ELSE IF GetFailedAttemptsOr(fa, e, fault) >= MAX_AUTH_ATTEMPTS
    THEN AuthErr("locked", AUTH_FAILED,
                 "Account temporarily locked due to multiple failed attempts",
                 TRUE, FALSE, fa)
    ELSE IF fault = "lookup"
    THEN AuthErr("error", AUTH_FAILED, "Authentication failed", TRUE, TRUE, fa)
    ELSE IF ~VerifyCredentials(store, e, pw).found
    THEN AuthErr("bad", AUTH_FAILED, "Invalid credentials", TRUE, TRUE,
                 IncrementFailedAttemptsOr(fa, e, fault))
    ELSE [phase |-> "good", res |-> Ok(Garbage), readCtr |-> TRUE,
          store |-> TRUE, failed |-> ClearFailedAttemptsOr(fa, e, fault)]

\* AuthenticationManager.authenticate_user with the call that raises
DoAuthenticateUserFaults(e, pw, acquired, fault) ==
    LET c == AuthCheckFaults(CredentialStore, failed, e, pw, acquired, fault)
        user == VerifyCredentials(CredentialStore, e, pw)
        a == CreateAccessToken(createCache, nextJti, AuthHandler,
                               [sub |-> user.id, email |-> e, role |-> "none"], user.roles, user.perms)
        r == CreateToken(a.cache, a.jti, AuthHandler,
                         [sub |-> user.id, email |-> "none", role |-> "none"], user.roles, {},
                         Delta(RefreshTTL))
    IN /\ c.failed[e].n <= MaxCounter
       /\ failed' = c.failed
       /\ last' = AuthOutcome("auth", c, e, pw, RedisGet(failed, e, now))
       /\ IF c.phase = "good"
          THEN /\ r.jti <= MaxAuthTokens + 1
               /\ createCache' = r.cache
               /\ nextJti' = r.jti
               /\ issued' = issued \cup {a.tok, r.tok}
               /\ tokCache' = CacheTokens(tokCache, user.id, a.tok, r.tok)
          ELSE UNCHANGED <<createCache, nextJti, issued, tokCache>>
       \* streak is the history of the runs without faults
       /\ UNCHANGED <<now, advances, secret, nextKey, blacklist, everBlacklisted,
                       rotatedOut, streak, refreshed, cryptoVars>>

\* the calls are those of the registered user
FaultEmails == {"a@x"}

FaultsNext ==
    \/ \E e \in FaultEmails, pw \in Passwords, fault \in FaultPoints :
            DoAuthenticateUserFaults(e, pw, TRUE, fault)
    \/ \E d \in AuthSteps : Advance(d)

\* --------------------------------------------- authentication, concurrency
\* Coroutines of one event loop (and workers sharing one redis) interleave at
\* the awaits. Each action below is the stretch of a handler between two
\* awaited calls; calls start in the order of their numbers.
Callers == 1..MaxCallers
Refreshers == 1..MaxRefreshers
RaceEmail == "a@x"
RacePassword == "bad"

RaceInit ==
    /\ callPc = [p \in Callers |-> "idle"]
    /\ rfPc = [p \in Refreshers |-> "idle"]
    /\ rfTok = [p \in Refreshers |-> Garbage]

\* the variables the concurrent calls leave alone
RaceRest == <<now, advances, secret, nextKey, rotatedOut, streak, refreshed,
              encVars, keyVars, rbacVars, mwVars, bucketVars, last>>

\* authenticate_user up to `await self._verify_credentials`: the limiter
\* admits the call, the counter is read and compared with MAX_AUTH_ATTEMPTS
CallBegin(p) ==
    /\ callPc[p] = "idle"
    /\ \A q \in Callers : q < p => callPc[q] # "idle"
    /\ callPc' = [callPc EXCEPT ![p] =
            IF GetFailedAttempts(failed, RaceEmail) >= MAX_AUTH_ATTEMPTS
            THEN "locked" ELSE "verify"]
    /\ UNCHANGED <<failed, tokCache, blacklist, createCache, issued, nextJti,
                   everBlacklisted, rfPc, rfTok, RaceRest>>

\* the lookup has returned no user; _increment_failed_attempts up to
\* `await self._cache.expire`: the INCR
CallIncr(p) ==
    /\ callPc[p] = "verify"
    /\ ~VerifyCredentials(CredentialStore, RaceEmail, RacePassword).found
    /\ failed' = RedisIncr(failed, RaceEmail, now)
    /\ callPc' = [callPc EXCEPT ![p] = "expire"]
    /\ UNCHANGED <<tokCache, blacklist, createCache, issued, nextJti,
                   everBlacklisted, rfPc, rfTok, RaceRest>>

\* the EXPIRE, then AuthenticationException("Invalid credentials")
CallExpire(p) ==
    /\ callPc[p] = "expire"
    /\ failed' = RedisExpire(failed, RaceEmail, now, LOCKOUT_TTL)
    /\ callPc' = [callPc EXCEPT ![p] = "failed"]
    /\ UNCHANGED <<tokCache, blacklist, createCache, issued, nextJti,
                   everBlacklisted, rfPc, rfTok, RaceRest>>

\* the calls that got past the lockout check
PastLockout == {p \in Callers : callPc[p] \in {"verify", "expire", "failed"}}

AuthRaceNext == \E p \in Callers : CallBegin(p) \/ CallIncr(p) \/ CallExpire(p)

\* refresh_token up to `await self._cache_tokens`: the token is verified,
\* the new pair is minted and the SETEX of tokens:{sub} is sent
RefreshBegin(p, t) ==
    LET v == RefreshCheck(blacklist, t)
        a == CreateAccessToken(createCache, nextJti, AuthHandler,
                               [sub |-> t.sub, email |-> "none", role |-> "none"], t.roles, t.perms)
        r == CreateToken(a.cache, a.jti, AuthHandler,
                         [sub |-> t.sub, email |-> "none", role |-> "none"], t.roles, {},
                         Delta(RefreshTTL))
    IN /\ rfPc[p] = "idle"
       /\ \A q \in Refreshers : q < p => rfPc[q] # "idle"
       /\ rfTok' = [rfTok EXCEPT ![p] = t]
       /\ IF v.ok
          THEN /\ r.jti <= MaxRaceTokens + 1
               /\ createCache' = r.cache
               /\ nextJti' = r.jti
               /\ issued' = issued \cup {a.tok, r.tok}
               /\ tokCache' = CacheTokens(tokCache, t.sub, a.tok, r.tok)
               /\ rfPc' = [rfPc EXCEPT ![p] = "cache"]
          ELSE /\ rfPc' = [rfPc EXCEPT ![p] = "failed"]
               /\ UNCHANGED <<createCache, nextJti, issued, tokCache>>
       /\ UNCHANGED <<failed, blacklist, everBlacklisted, callPc, RaceRest>>

\* redis has answered: the presented token is blacklisted and the new pair
\* is returned
RefreshEnd(p) ==
    /\ rfPc[p] = "cache"
    /\ blacklist' = BlacklistToken(blacklist, AuthHandler, rfTok[p])
    /\ everBlacklisted' = [everBlacklisted EXCEPT ![AuthHandler] = @ \cup {rfTok[p]}]
    /\ rfPc' = [rfPc EXCEPT ![p] = "done"]
    /\ UNCHANGED <<failed, tokCache, createCache, issued, nextJti, callPc,
                   rfTok, RaceRest>>

\* a refresh token minted on the module-level handler, presented later
IssueRaceToken(data, roles) ==
    CreateStep(MaxRaceTokens, "jwt_handler", data, roles, {}, Delta(LongTTL))

RefreshRaceNext ==
    \/ \E data \in DataSet, roles \in RoleLists : IssueRaceToken(data, roles)
    \/ \E p \in Refreshers, t \in issued \cup {Garbage} : RefreshBegin(p, t)
    \/ \E p \in Refreshers : RefreshEnd(p)

\* ---------------------------------------------------- RateLimitMiddleware
\* rate_limits["user"] and rate_limits["org"] (1000 and 5000 in
\* api/__init__.py), scaled down
USER_LIMIT == 3
ORG_LIMIT == 6
WINDOW_SECONDS == 60
Requests == 1..MaxRequests

\* increment_cache, which middleware.py imports and utils/cache.py does not
\* define: the atomic INCR of redis, returning the new value
IncrementCache(k) ==
    IF KeyLive(k, now) THEN [k EXCEPT !.n = @ + 1]
    ELSE [n |-> 1, ttl |-> FALSE, exp |-> 0]

\* set_cache: SET key value EX ttl, whatever the key holds
SetCache(k, value, ttl) == [n |-> value, ttl |-> TRUE, exp |-> now + ttl]

\* count > limit * self._burst_multiplier, the multiplier being 1.5
ExceedsBurst(count, limit) == 2 * count > 3 * limit

MwInit ==
    /\ mwPc = [i \in Requests |-> "idle"]
    /\ mwSeen = [i \in Requests |-> 0]
    /\ mwUser = NoKey
    /\ mwOrg = NoKey
    /\ mwIncrs = 0

MwRest == <<now, advances, jwtVars, authVars, encVars, keyVars, rbacVars,
            raceVars, bucketVars, last>>

\* dispatch up to the return of `await increment_cache(user_key)`
MwIncrUser(i) ==
    /\ mwPc[i] = "idle"
    /\ \A j \in Requests : j < i => mwPc[j] # "idle"
    /\ mwUser' = IncrementCache(mwUser)
    /\ mwSeen' = [mwSeen EXCEPT ![i] = mwUser'.n]
    /\ mwIncrs' = mwIncrs + 1
    /\ mwPc' = [mwPc EXCEPT ![i] = "user"]
    /\ UNCHANGED <<mwOrg, MwRest>>

\* _increment_counter on count == 1: set_cache(key, 1, 60) runs, and the
\* await on its bool raises TypeError, which dispatch turns into HTTP 500
MwSetUser(i) ==
    /\ mwPc[i] = "user" /\ mwSeen[i] = 1
    /\ mwUser' = SetCache(mwUser, mwSeen[i], WINDOW_SECONDS)
    /\ mwPc' = [mwPc EXCEPT ![i] = "error"]
    /\ UNCHANGED <<mwSeen, mwOrg, mwIncrs, MwRest>>

\* dispatch from the user count to the return of
\* `await increment_cache(org_key)` and, on a count above 1, through the
\* two limit checks to call_next or HTTP 429
MwIncrOrg(i) ==
    /\ mwPc[i] = "user" /\ mwSeen[i] # 1
    /\ mwOrg' = IncrementCache(mwOrg)
    /\ mwPc' = [mwPc EXCEPT ![i] =
            IF mwOrg'.n = 1 THEN "org"
            ELSE IF ExceedsBurst(mwSeen[i], USER_LIMIT) \/ ExceedsBurst(mwOrg'.n, ORG_LIMIT)
            THEN "limited" ELSE "admitted"]
    /\ UNCHANGED <<mwSeen, mwUser, mwIncrs, MwRest>>

\* _increment_counter on the org key with count == 1
MwSetOrg(i) ==
    /\ mwPc[i] = "org"
    /\ mwOrg' = SetCache(mwOrg, 1, WINDOW_SECONDS)
    /\ mwPc' = [mwPc EXCEPT ![i] = "error"]
    /\ UNCHANGED <<mwSeen, mwUser, mwIncrs, MwRest>>

\* the requests call_next was called for
Admitted == {i \in Requests : mwPc[i] = "admitted"}

MwNext ==
    \E i \in Requests : MwIncrUser(i) \/ MwSetUser(i) \/ MwIncrOrg(i) \/ MwSetOrg(i)

\* ------------------------------------------------ integration RateLimiter
\* RateLimiter(rate, burst) of integration_hub/client.py. The clock ticks
\* TicksPerSecond times a second and tokens are counted in units of
\* 1/TicksPerSecond token, so that tokens + time_passed * rate is exact.
RATE == 1
BURST == 2
TicksPerSecond == 4
OneToken == TicksPerSecond

BucketInit ==
    /\ tokens = BURST * OneToken
    /\ lastUpdate = 0
    /\ bucketNow = 0
    /\ granted = 0

BucketRest == <<now, advances, jwtVars, authVars, encVars, keyVars, rbacVars,
                raceVars, mwVars, last>>

MinOf(a, b) == IF a < b THEN a ELSE b

\* min(self.burst, self.tokens + time_passed * self.rate)
Refill(tok, lastUpd, t) == MinOf(BURST * OneToken, tok + (t - lastUpd) * RATE)

\* RateLimiter.acquire under its lock: last_update moves only when a token
\* is granted
Acquire ==
    LET r == Refill(tokens, lastUpdate, bucketNow)
    IN IF r >= OneToken
       THEN /\ tokens' = r - OneToken
            /\ lastUpdate' = bucketNow
            /\ granted' = granted + 1
            /\ UNCHANGED <<bucketNow, BucketRest>>
       ELSE /\ tokens' = r
            /\ UNCHANGED <<lastUpdate, granted, bucketNow, BucketRest>>

BucketTick ==
    /\ bucketNow < MaxBucketTicks
    /\ bucketNow' = bucketNow + 1
    /\ UNCHANGED <<tokens, lastUpdate, granted, BucketRest>>

BucketNext == Acquire \/ BucketTick

\* ----------------------------------------------------------- token lifetime
\* the expires_delta values of the callers and of test_token_lifecycle:
\* absent, timedelta(0), timedelta(seconds=-1), timedelta(days=7)
TtlDeltas == {NoDelta, Delta(0), Delta(-1), Delta(RefreshTTL)}
TtlSteps == {1, AccessTTL}

\* create_token on the module-level handler with a lifetime of TtlDeltas
DoCreateTtlToken(data, delta) ==
    CreateStep(MaxTtlTokens, "jwt_handler", data, <<"standard_user">>, {}, delta)

TtlNext ==
    \/ \E data \in DataSet, delta \in TtlDeltas : DoCreateTtlToken(data, delta)
    \/ \E t \in issued : DoVerifyToken("jwt_handler", t)
    \/ \E d \in TtlSteps : Tick(MaxTtlAdvances, d)

\* -------------------------------------------------------------------- RBAC
PERMISSION_CACHE_TTL == 300
RbacHandler == "rbac_handler"

UserRoles == {"super_admin", "org_admin", "standard_user", "integration_user"}
Permissions == {"read_data", "write_data", "manage_templates",
                "configure_integrations", "manage_users"}
\* the permission names in the order sorted() gives them
PermissionOrder == <<"configure_integrations", "manage_templates",
                     "manage_users", "read_data", "write_data">>

Range(f) == {f[i] : i \in DOMAIN f}

\* _role_permissions.get(role, [])
RolePermissions(role) ==
    CASE role = "super_admin" -> Permissions
      [] role = "org_admin" -> {"read_data", "write_data", "manage_templates",
                                "configure_integrations", "manage_users"}
      [] role = "standard_user" -> {"read_data", "write_data", "manage_templates"}
      [] role = "integration_user" -> {"read_data"}
      [] OTHER -> {}

\* _role_hierarchy.get(role, [])
RoleHierarchy(role) ==
    CASE role = "super_admin" -> UserRoles
      [] role = "org_admin" -> {"org_admin", "standard_user", "integration_user"}
      [] role = "standard_user" -> {"standard_user", "integration_user"}
      [] role = "integration_user" -> {"integration_user"}
      [] OTHER -> {}

\* the permissions a role has in common with every role it inherits
MutInheritedIntersection(role) ==
    {p \in Permissions : \A r \in RoleHierarchy(role) : p \in RolePermissions(r)}

\* the permissions of a role and of the roles it inherits
InheritedPermissions(role) ==
    UNION {RolePermissions(r) : r \in RoleHierarchy(role)}

SortedList(ps) == SelectSeq(PermissionOrder, LAMBDA p : p \in ps)

\* the cache keys f"{token}:{required_permission}" and role
CheckKey(t, p) == [t |-> t, p |-> p, role |-> "none"]
RoleKey(role) == [t |-> Garbage, p |-> "none", role |-> role]

\* RBACHandler.verify_permission as a function of the permission cache and
\* of the blacklists: a live cache entry answers; otherwise the token is
\* verified on the handler's own JWTHandler, its "role" claim is resolved,
\* and the answer is cached; every exception answers False uncached
VerifyPermission(pc, bl, t, p) ==
    LET k == CheckKey(t, p)
        v == VerifyToken(bl, RbacHandler, t)
    IN IF TTLContains(pc, k, now)
       THEN [ret |-> pc[TTLGet(pc, k, now)].v, cache |-> pc]
       ELSE IF ~v.ok \/ v.claims.role = "none"
       THEN [ret |-> FALSE, cache |-> pc]
       ELSE LET g == \E r \in RoleHierarchy(v.claims.role) : p \in RolePermissions(r)
            IN [ret |-> g,
                cache |-> TTLSet(pc, k, g, now, PERMISSION_CACHE_TTL, PermCacheCap)]

\* RBACHandler.get_user_permissions
GetUserPermissions(pc, role) ==
    LET k == RoleKey(role)
    IN IF TTLContains(pc, k, now)
       THEN [ret |-> pc[TTLGet(pc, k, now)].v, cache |-> pc]
       ELSE IF role \notin UserRoles
       THEN [ret |-> <<>>, cache |-> pc]
       ELSE LET l == SortedList(InheritedPermissions(role))
            IN [ret |-> l,
                cache |-> TTLSet(pc, k, l, now, PERMISSION_CACHE_TTL, PermCacheCap)]

\* JWTHandler.has_role
HasRole(bl, h, t, role) ==
    LET v == VerifyToken(bl, h, t)
    IN v.ok /\ role \in Range(v.claims.roles)

\* JWTHandler.has_permission: membership in the keys of the permissions claim
HasPermission(bl, h, t, p) ==
    LET v == VerifyToken(bl, h, t)
    IN v.ok /\ \E kv \in v.claims.perms : kv[1] = p

RbacOutcome(op, ret) ==
    [op |-> op, ok |-> TRUE, code |-> "none", msg |-> "none", ret |-> ret]

RbacInit == permCache = <<>>

\* the other variables of the RBAC operations
RbacRest == <<now, advances, jwtVars, authVars, encVars, keyVars, sideVars>>

DoVerifyPermission(t, p) ==
    LET r == VerifyPermission(permCache, blacklist, t, p)
    IN /\ permCache' = r.cache
       /\ last' = RbacOutcome("verify_permission", r.ret)
       /\ UNCHANGED RbacRest

DoGetUserPermissions(role) ==
    LET r == GetUserPermissions(permCache, role)
    IN /\ permCache' = r.cache
       /\ last' = RbacOutcome("get_user_permissions", r.ret)
       /\ UNCHANGED RbacRest

DoHasRole(h, t, role) ==
    /\ last' = RbacOutcome("has_role", HasRole(blacklist, h, t, role))
    /\ UNCHANGED <<permCache, RbacRest>>

DoHasPermission(h, t, p) ==
    /\ last' = RbacOutcome("has_permission", HasPermission(blacklist, h, t, p))
    /\ UNCHANGED <<permCache, RbacRest>>

\* claims data with and without a "role" entry, of a role RBAC knows or not
RbacRoleClaims == {"none", "standard_user", "guest"}
RbacData(r) == [sub |-> "u1", email |-> "none", role |-> r]
RbacPerms == {<<"write_data", TRUE>>, <<"manage_users", FALSE>>}
\* the create_token calls of SpecRbac
RbacRequests ==
    {[data |-> RbacData("none"), perms |-> RbacPerms, delta |-> NoDelta],
     [data |-> RbacData("standard_user"), perms |-> {}, delta |-> Delta(100)],
     [data |-> RbacData("guest"), perms |-> {}, delta |-> NoDelta]}
RbacProbes == {"read_data", "manage_users"}
RbacSteps == {200, 200 + PERMISSION_CACHE_TTL}

RbacNext ==
    \/ \E q \in RbacRequests, roles \in RoleLists :
            CreateStep(MaxRbacTokens, "jwt_handler", q.data, roles, q.perms, q.delta)
    \/ \E t \in issued \cup {Garbage}, p \in RbacProbes : DoVerifyPermission(t, p)
    \/ \E role \in {"super_admin", "integration_user", "guest"} :
            DoGetUserPermissions(role)
    \/ \E h \in JwtIssuers, t \in TokenInputs, role \in {"standard_user", "guest"} :
            DoHasRole(h, t, role)
    \/ \E h \in JwtIssuers, t \in TokenInputs, p \in {"write_data", "manage_users"} :
            DoHasPermission(h, t, p)
    \/ \E d \in RbacSteps : Advance(d)

\* ------------------------------------------------------------------ OAuth2
INTEGRATION_ERROR == "int_001"
OAUTH2_PROVIDERS == {"google", "microsoft", "apple"}
ProviderInputs == OAUTH2_PROVIDERS \cup {"github"}
HttpStatuses == {200, 400, 503}

\* what the body of authenticate_oauth2 raises before its handler wraps it:
\* the error code of the exception, or the name of a built-in exception
OAuth2Inner(provider, acquired, tokenStatus, userStatus) ==
    IF provider \notin OAUTH2_PROVIDERS
    THEN [code |-> AUTH_FAILED, msg |-> "Unsupported OAuth2 provider", minted |-> FALSE]
    ELSE IF ~acquired
    THEN [code |-> RATE_LIMITED, msg |-> "Rate limit exceeded for OAuth2 provider",
          minted |-> FALSE]
    ELSE IF tokenStatus # 200
    THEN [code |-> INTEGRATION_ERROR, msg |-> "Failed to exchange authorization code",
          minted |-> FALSE]
    ELSE IF userStatus # 200
    THEN [code |-> INTEGRATION_ERROR, msg |-> "Failed to get user information",
          minted |-> FALSE]
    \* the internal token is minted, then _cache_tokens reads
    \* SecurityConfig.TOKEN_EXPIRY, which SecurityConfig does not have
    ELSE [code |-> "AttributeError", msg |-> "TOKEN_EXPIRY", minted |-> TRUE]

\* the handler's `except Exception` wraps everything the body raises
AuthenticateOAuth2(provider, acquired, tokenStatus, userStatus) ==
    LET inner == OAuth2Inner(provider, acquired, tokenStatus, userStatus)
    IN [res |-> Err(AUTH_FAILED, "Authentication failed"),
        detail |-> inner.msg, minted |-> inner.minted]

\* AuthenticationManager.authenticate_oauth: the provider check, the call,
\* and an `except Exception` that wraps everything again
AuthenticateOAuth(provider, acquired, tokenStatus, userStatus) ==
    LET r == AuthenticateOAuth2(provider, acquired, tokenStatus, userStatus)
    IN [res |-> Err(AUTH_FAILED, "OAuth2 authentication failed"),
        detail |-> "none",
        minted |-> provider \in OAUTH2_PROVIDERS /\ r.minted]

OAuthOutcome(op, r, provider) ==
    [op |-> op, ok |-> r.res.ok, code |-> r.res.code, msg |-> r.res.msg,
     detail |-> r.detail, provider |-> provider]

OAuthData(provider) ==
    [sub |-> "u1", email |-> "none", role |-> "none", provider |-> provider]

\* the state change of a call: the access token create_access_token mints
\* before _cache_tokens fails
OAuthStep(op, r, provider) ==
    LET a == CreateAccessToken(createCache, nextJti, "jwt_handler",
                               OAuthData(provider), <<"user">>, {})
    IN /\ last' = OAuthOutcome(op, r, provider)
       /\ IF r.minted
          THEN /\ a.jti <= MaxOAuthTokens + 1
               /\ createCache' = a.cache
               /\ nextJti' = a.jti
               /\ issued' = issued \cup {a.tok}
          ELSE UNCHANGED <<createCache, nextJti, issued>>
       /\ UNCHANGED <<now, advances, secret, nextKey, blacklist, everBlacklisted,
                      rotatedOut, authVars, cryptoVars>>

\* OAuth2Handler.authenticate_oauth2
DoAuthenticateOAuth2(provider, acquired, tokenStatus, userStatus) ==
    OAuthStep("authenticate_oauth2",
              AuthenticateOAuth2(provider, acquired, tokenStatus, userStatus),
              provider)

\* AuthenticationManager.authenticate_oauth
DoAuthenticateOAuth(provider, acquired, tokenStatus, userStatus) ==
    OAuthStep("authenticate_oauth",
              AuthenticateOAuth(provider, acquired, tokenStatus, userStatus),
              provider)

OAuthNext ==
    \/ \E provider \in ProviderInputs, acquired \in BOOLEAN,
          tokenStatus \in HttpStatuses, userStatus \in HttpStatuses :
            DoAuthenticateOAuth2(provider, acquired, tokenStatus, userStatus)
    \/ \E provider \in ProviderInputs, acquired \in BOOLEAN,
          tokenStatus \in HttpStatuses, userStatus \in HttpStatuses :
            DoAuthenticateOAuth(provider, acquired, tokenStatus, userStatus)
    \/ \E d \in JwtSteps : Advance(d)

\* ------------------------------------------------------------------ claims
LockedMsg == "Account temporarily locked due to multiple failed attempts"

\* C1: a token blacklist_token was called on never verifies again on that
\* handler, whatever its remaining lifetime and whatever follows.
C1_BlacklistedNeverVerifies ==
    \A h \in Handlers : \A t \in everBlacklisted[h] :
        ~VerifyToken(blacklist, h, t).ok

\* C2: verify_token returns the claims iff the signature verifies under the
\* handler's secret, exp has not passed, the version is the current one and
\* the token has not been blacklisted on the handler.
C2_ValidIffAllFour ==
    \A h \in Handlers : \A t \in TokenInputs :
        VerifyToken(blacklist, h, t).ok
            <=> /\ t.form = "jwt"
                /\ t.key = secret[h]
                /\ ~(t.exp < now)
                /\ t.ver = TOKEN_VERSION
                /\ t \notin everBlacklisted[h]

C6_NoReplay ==
    \A t \in refreshed : ~RefreshCheck(blacklist, t).ok

\* C7: a token blacklisted through one handler is rejected by verify_token
\* on every handler of the process.
C7_RevocationShared ==
    \A h1 \in Handlers, h2 \in Handlers : \A t \in everBlacklisted[h1] :
        ~VerifyToken(blacklist, h2, t).ok

\* C8: a call the rate limiter refuses fails with RATE_LIMITED, reads no
\* lockout counter, calls no credential store and leaves every
\* failed_attempts key as it was.
C8_RateLimitedTouchesNothing ==
    [][\A e \in Emails, pw \in Passwords :
        DoAuthenticateUser(e, pw, FALSE)
            => /\ ~last'.ok /\ last'.code = RATE_LIMITED
               /\ ~last'.readCtr /\ ~last'.store
               /\ failed' = failed]_vars

\* a refused call for an email that is locked
C8_Witness ==
    /\ last.op = "auth" /\ last.code = RATE_LIMITED
    /\ GetFailedAttempts(failed, last.email) >= MAX_AUTH_ATTEMPTS

OtherPassword(pw) == CHOOSE q \in Passwords : q # pw
\* the store with e unregistered
WithoutUser(e) == [CredentialStore EXCEPT ![e] = NoUser]
\* the store with e registered under another password than pw
WithOtherPassword(e, pw) ==
    [CredentialStore EXCEPT ![e] = [found |-> TRUE, id |-> "u1",
        pw |-> OtherPassword(pw), roles |-> <<"standard_user">>, perms |-> {}]]

C5_DecryptableAfterRotation ==
    \A c \in sealed :
        (c.key = prevKey /\ c.src.kind = "str")
            => DecryptData(c, encKey) = DecOk(c.src.val)

\* C10: after a rotation the key store holds exactly the new active key and
\* the key that was active immediately before it.
C10_TwoGenerations ==
    rotations >= 1 => encryptionKeys = {activeKeyId, prevActive}

\* C11: once rotate_key() has returned on a handler, verify_token on that
\* handler fails for every token issued before the rotation, at any later
\* time.
C11_RotationInvalidates ==
    \A h \in Handlers : \A t \in rotatedOut[h] :
        ~VerifyToken(blacklist, h, t).ok

\* a token issued before the rotation, neither expired nor blacklisted, and a
\* verify_token that has just been refused for its signature
C11_Witness ==
    /\ \E h \in JwtRotators : \E t \in rotatedOut[h] :
            /\ ~(t.exp < now)
            /\ ~TTLContains(blacklist[h], t, now)
            /\ ~VerifyToken(blacklist, h, t).ok
    /\ last.op = "verify" /\ ~last.ok
    /\ last.msg = "Invalid authentication token"

\* C12: every create_token call returns a token that was not returned
\* before and whose jti differs from the jti of every token issued before it.
C12_FreshJti ==
    [][\A h \in JwtIssuers, data \in DataSet, roles \in RoleLists,
         perms \in JwtPerms, delta \in JwtDeltas :
          DoCreateToken(h, data, roles, perms, delta)
            => \E t \in issued' \ issued : \A u \in issued : u.jti # t.jti]_vars

\* the reason verify_token refuses a token for, in the order it checks
RejectCause(bl, h, t) ==
    IF TTLContains(bl[h], t, now) THEN "TokenRevoked"
    ELSE IF t.form # "jwt" \/ t.key # secret[h] THEN "InvalidToken"
    ELSE IF t.exp < now THEN "TokenExpired"
    ELSE IF t.ver # TOKEN_VERSION THEN "InvalidToken"
    ELSE "none"

\* C17: two tokens that verify_token refuses for different reasons
\* (revoked, expired, invalid) are refused with different error codes.
C17_DistinctKinds ==
    \A h \in Handlers : \A t \in TokenInputs, u \in TokenInputs :
        LET ct == RejectCause(blacklist, h, t)
            cu == RejectCause(blacklist, h, u)
        IN (ct # "none" /\ cu # "none" /\ ct # cu)
            => VerifyToken(blacklist, h, t).code # VerifyToken(blacklist, h, u).code

\* C13: for a token that verifies and was issued for a user of role R,
\* verify_permission(token, p) is true iff p is among the permissions of R
\* and of the roles R inherits.
C13_VerifyPermissionByRole ==
    \A t \in issued : \A p \in Permissions :
        (VerifyToken(blacklist, RbacHandler, t).ok /\ Len(t.roles) = 1)
            => (VerifyPermission(permCache, blacklist, t, p).ret
                    <=> p \in InheritedPermissions(t.roles[1]))

\* the hierarchy, highest role first
RoleChain == <<"super_admin", "org_admin", "standard_user", "integration_user">>

\* C14: get_user_permissions of a role is a superset of get_user_permissions
\* of every role below it in the hierarchy, and get_user_permissions of
\* super_admin is the full permission set.
C14_RoleInheritance ==
    LET P(r) == Range(GetUserPermissions(permCache, r).ret)
    IN /\ \A i \in 1..Len(RoleChain), j \in 1..Len(RoleChain) :
            i < j => P(RoleChain[j]) \subseteq P(RoleChain[i])
       /\ P("super_admin") = Permissions

\* get_user_permissions has answered and super_admin's list is cached
C14_Witness ==
    /\ last.op = "get_user_permissions"
    /\ TTLContains(permCache, RoleKey("super_admin"), now)
    /\ Range(GetUserPermissions(permCache, "super_admin").ret) = Permissions

\* C15: whenever verify_token fails on a token (malformed, bad signature,
\* expired, blacklisted), has_role and has_permission of that handler and
\* verify_permission of the RBAC handler answer false; verify_permission
\* answers false for a role RBAC does not know.
C15_FailClosed ==
    \A t \in TokenInputs :
        /\ \A h \in JwtIssuers :
              ~VerifyToken(blacklist, h, t).ok
                => /\ \A r \in UserRoles : ~HasRole(blacklist, h, t, r)
                   /\ \A p \in Permissions : ~HasPermission(blacklist, h, t, p)
        /\ (~VerifyToken(blacklist, RbacHandler, t).ok \/ t.role \notin UserRoles)
              => \A p \in Permissions : ~VerifyPermission(permCache, blacklist, t, p).ret

\* C16: for a token that verifies, has_permission(token, p) is true iff the
\* permissions claim maps p to true, and for a standard_user token it is true
\* for write_data and false for manage_users.
C16_HasPermissionGrants ==
    \A h \in JwtIssuers : \A t \in issued :
        VerifyToken(blacklist, h, t).ok
            => /\ \A p \in Permissions :
                    HasPermission(blacklist, h, t, p) <=> (<<p, TRUE>> \in t.perms)
               /\ t.roles = <<"standard_user">>
                    => /\ HasPermission(blacklist, h, t, "write_data")
                       /\ ~HasPermission(blacklist, h, t, "manage_users")

\* C18: authenticate_oauth2 fails with INTEGRATION_ERROR when the token
\* endpoint answers with a non-success status, and with RATE_LIMITED when
\* the provider's limiter refuses the call.
C18_ProviderFailureVisible ==
    [][\A provider \in OAUTH2_PROVIDERS, acquired \in BOOLEAN,
         tokenStatus \in HttpStatuses, userStatus \in HttpStatuses :
          DoAuthenticateOAuth2(provider, acquired, tokenStatus, userStatus)
            => /\ (acquired /\ tokenStatus # 200) => last'.code = INTEGRATION_ERROR
               /\ ~acquired => last'.code = RATE_LIMITED]_vars

\* the keys generated so far
KeysSeen == 1..(nextKey - 1)

\* C19: decrypting a sealed payload with the key that sealed it returns the
\* plaintext that was encrypted, text or bytes, valid UTF-8 or not.
C19_RoundTrip ==
    \A c \in sealed :
        LET r == DecryptData(c, c.key)
        IN r.ok /\ Text(r.text) = c.src

\* C20: a sealed payload whose ciphertext or tag was altered, under any key,
\* and an unaltered payload under another key than the sealing one, fail with
\* crypto_005 (authentication failed) and yield no plaintext.
C20_FailClosed ==
    \A c \in sealed : \A k \in KeysSeen :
        /\ \A x \in Tamperings(c) : DecryptData(x, k) = DecErr("crypto_005")
        /\ k # c.key => DecryptData(c, k) = DecErr("crypto_005")

\* decrypt has refused a payload for its tag before any rotation: the
\* payload was an altered one
C20_Witness ==
    /\ decrypted = DecErr("crypto_005")
    /\ encKey = 1 /\ prevKey = 0
    /\ \E c \in sealed : c.key = encKey

\* C30: once rotate_key has replaced the secret of a handler, every token
\* create_token returns on that handler is signed with the current secret
\* and passes verify_token on that handler, also when the call repeats the
\* arguments of a call made before the rotation.
C30_FreshKeyAfterRotation ==
    [][\A h \in JwtIssuers, data \in DataSet, roles \in RoleLists,
          perms \in JwtPerms, delta \in JwtDeltas :
        (secret[h] # SECRET_KEY /\ DoCreateToken(h, data, roles, perms, delta))
            => LET t == CreateToken(createCache, nextJti, h, data, roles,
                                    perms, delta).tok
               IN /\ t.key = secret[h]
                  /\ VerifyToken(blacklist, h, t).ok]_vars

\* C25: a token minted with a lifetime ttl has exp = iat + ttl, exp is
\* iat + 30 minutes only when no lifetime was given, and a token minted with
\* a lifetime of zero or less does not verify.
C25_ExpIsIatPlusTtl ==
    [][\A data \in DataSet, delta \in TtlDeltas :
        DoCreateTtlToken(data, delta)
            => \A t \in issued' \ issued :
                /\ t.exp = t.iat + (IF delta.given THEN delta.secs ELSE AccessTTL)
                /\ (delta.given /\ delta.secs <= 0)
                        => ~VerifyToken(blacklist', "jwt_handler", t).ok]_vars

\* C23: verify_permission never answers true for a token that has expired
\* or that its handler has blacklisted, also while a true answer given
\* earlier for the same token and permission is still cached.
C23_NoGrantPastExpiry ==
    [][\A t \in issued, p \in RbacProbes :
        (/\ DoVerifyPermission(t, p)
         /\ (t.exp < now \/ TTLContains(blacklist[RbacHandler], t, now)))
            => last'.ret = FALSE]_vars

\* C24: when the credential lookup raises, authenticate_user fails with
\* AUTH_FAILED and leaves failed_attempts as it was; a call changes a counter
\* upwards only when the lookup returned and found no user.
C24_LookupErrorLeavesCounter ==
    [][\A e \in Emails, pw \in Passwords, fault \in FaultPoints :
        DoAuthenticateUserFaults(e, pw, TRUE, fault)
            => /\ (fault = "lookup")
                    => (failed' = failed /\ ~last'.ok /\ last'.code = AUTH_FAILED)
               /\ (failed'[e] # failed[e] /\ failed'[e] # NoKey)
                    => /\ fault # "lookup"
                       /\ last'.store
                       /\ ~VerifyCredentials(CredentialStore, e, pw).found]_vars

\* a lookup that raised for an email with failures on record, which are
\* still on record
C24_Witness ==
    /\ last.op = "auth" /\ last.msg = "Authentication failed" /\ last.store
    /\ last.pre \in 1..(MAX_AUTH_ATTEMPTS - 1)
    /\ RedisGet(failed, last.email, now) = last.pre

\* C28: a failed_attempts key that exists expires, and no later than 3600
\* seconds from now.
C28_CounterCarriesTtl ==
    \A e \in Emails :
        failed[e] # NoKey
            => (failed[e].ttl /\ failed[e].exp - now <= LOCKOUT_TTL)

\* C29: when the read of the counter raises for an email whose stored counter
\* is 5 or more, authenticate_user does not reach the credential store and
\* does not succeed.
C29_LockoutReadFailsClosed ==
    [][\A e \in Emails, pw \in Passwords :
        (/\ RedisGet(failed, e, now) >= MAX_AUTH_ATTEMPTS
         /\ DoAuthenticateUserFaults(e, pw, TRUE, "get"))
            => (~last'.store /\ ~last'.ok)]_vars

\* C21: of the concurrent wrong-password authenticate_user calls for one
\* email that starts with no failures on record, at most 5 get past the
\* lockout check.
C21_AtMostFivePastLockout ==
    Cardinality(PastLockout) <= MAX_AUTH_ATTEMPTS

\* C22: of the refresh_token calls that present the same refresh token, at
\* most one returns a new pair.
C22_OneRefreshPerToken ==
    \A p \in Refreshers, q \in Refreshers :
        (rfPc[p] = "done" /\ rfPc[q] = "done" /\ rfTok[p] = rfTok[q]) => p = q

\* C26: in one window the middleware admits at most floor(1.5 * limit)
\* requests of a user, and the user counter equals the number of increments
\* issued on it.
C26_WindowBound ==
    /\ 2 * Cardinality(Admitted) <= 3 * USER_LIMIT
    /\ mwUser.n = mwIncrs

\* C27: the calls of acquire() granted within the time elapsed since the
\* limiter was built number at most burst + rate * elapsed, and tokens stays
\* between 0 and burst.
C27_BucketBound ==
    /\ granted * OneToken <= BURST * OneToken + RATE * bucketNow
    /\ tokens >= 0 /\ tokens <= BURST * OneToken

Init ==
    /\ JwtInit /\ AuthInit /\ EncInit /\ KeysInit /\ RbacInit
    /\ RaceInit /\ MwInit /\ BucketInit

SpecJwt == Init /\ [][JwtNext]_vars

SpecAuth == Init /\ [][AuthNext]_vars

SpecRefresh == Init /\ [][RefreshNext]_vars

SpecRbac == Init /\ [][RbacNext]_vars

SpecOAuth == Init /\ [][OAuthNext]_vars

SpecEnc == Init /\ [][EncNext]_vars

SpecKeys == Init /\ [][KeysNext]_vars

SpecTtl == Init /\ [][TtlNext]_vars

SpecAuthFaults == Init /\ [][FaultsNext]_vars

SpecAuthRace == Init /\ [][AuthRaceNext]_vars

SpecRefreshRace == Init /\ [][RefreshRaceNext]_vars

SpecMw == Init /\ [][MwNext]_vars

SpecBucket == Init /\ [][BucketNext]_vars
====
